---------------------------- MODULE Spec2Model ----------------------------
(***************************************************************************)
(* A model of the moderation demo: the duration parser (parseTimeToMs),    *)
(* the rate-limit advisor (shouldWaitForRateLimit), the result analyzer    *)
(* (ModerationApp.analyzeResult) and the run of the application (main,     *)
(* ModerationApp.runModeration, ModerationApp.moderateText).               *)
(*                                                                         *)
(* Strings are sequences of one-character strings.  Scores are integers    *)
(* in thousandths.  An optional field is None or Some(v).                  *)
(***************************************************************************)
EXTENDS Integers, Sequences, FiniteSets, TLC

VARIABLES
    timeStr,        \* parseTimeToMs: its argument
    parsed,         \* parseTimeToMs: its return value, None before the call
    info,           \* shouldWaitForRateLimit: its rateLimitInfo argument
    threshold,      \* shouldWaitForRateLimit: its threshold argument <<num, den>>
    waitTime,       \* shouldWaitForRateLimit: its return value, None before
    result,         \* analyzeResult: the ModerationResult it is given
    log,            \* the console: the lines logged so far
    calls,          \* analyzeResult: how many times it has been called
    firstLog,       \* the lines the first call of analyzeResult logged
    variant,        \* a second ModerationResult with the same category_scores
    pc,             \* the application: where the run is
    env,            \* process.env.OPENAI_API_KEY is set
    net,            \* what the file system and the moderation service answer
    rateLimitInfo,  \* ModerationApp.rateLimitInfo
    exitCode,       \* the process exit code, None while running
    netCalls        \* how many times client.moderations.create was called

vars == <<timeStr, parsed, info, threshold, waitTime, result, log, calls,
          firstLog, variant, pc, env, net, rateLimitInfo, exitCode, netCalls>>

parserVars   == <<timeStr, parsed>>
advisorVars  == <<info, threshold, waitTime>>
analyzerVars == <<result, calls, firstLog, variant>>
appVars      == <<pc, env, net, rateLimitInfo, exitCode, netCalls>>

None == [has |-> FALSE]
Some(v) == [has |-> TRUE, val |-> v]

Max(a, b) == IF a >= b THEN a ELSE b

(***************************************************************************)
(* Bounds of the model.                                                    *)
(***************************************************************************)
\* Longest time string given to the parser.
MaxLen == 3
\* How many of the 13 categories (the first ones of the enumeration) a
\* ModerationResult of the model carries.
NumCats == 4

(***************************************************************************)
(* parseTimeToMs                                                           *)
(***************************************************************************)
Digits == {"0", "1", "2", "3", "4", "5", "6", "7", "8", "9"}
Units == {"s", "m", "h"}

\* The characters the time strings of the model are made of.
Chars == {"0", "2", "5", "s", "m", "h", "x"}

RECURSIVE StringsOfLen(_)
StringsOfLen(n) ==
    IF n = 0 THEN {<<>>}
    ELSE {Append(s, c) : s \in StringsOfLen(n - 1), c \in Chars}

RECURSIVE StringsUpTo(_)
StringsUpTo(n) == IF n = 0 THEN {<<>>} ELSE StringsOfLen(n) \cup StringsUpTo(n - 1)

DigitVal(c) ==
    CASE c = "0" -> 0 [] c = "1" -> 1 [] c = "2" -> 2 [] c = "3" -> 3
      [] c = "4" -> 4 [] c = "5" -> 5 [] c = "6" -> 6 [] c = "7" -> 7
      [] c = "8" -> 8 [] c = "9" -> 9

\* parseInt of a string of decimal digits.
RECURSIVE parseInt(_)
parseInt(ds) ==
    IF ds = <<>> THEN 0
    ELSE 10 * parseInt(SubSeq(ds, 1, Len(ds) - 1)) + DigitVal(ds[Len(ds)])

\* \d+ is greedy: from position i it takes the digits up to the last one of
\* the run (i - 1 when s[i] is no digit).
RECURSIVE DigitRunEnd(_, _)
DigitRunEnd(s, i) ==
    IF i <= Len(s) /\ s[i] \in Digits THEN DigitRunEnd(s, i + 1) ELSE i - 1

\* /(\d+)([smh])/ tried at position i. Giving back digits of the run cannot
\* help, the character after a shorter run being a digit, so the attempt
\* succeeds exactly when the whole run is followed by a unit.
MatchAt(s, i) ==
    LET e == DigitRunEnd(s, i)
    IN  IF e >= i /\ e + 1 <= Len(s) /\ s[e + 1] \in Units
        THEN Some([value |-> SubSeq(s, i, e), unit |-> s[e + 1]])
        ELSE None

\* String.prototype.match with a pattern that is not anchored: the match at
\* the leftmost position where the pattern matches, None for null.
RECURSIVE MatchFrom(_, _)
MatchFrom(s, i) ==
    IF i > Len(s) THEN None
    ELSE IF MatchAt(s, i).has THEN MatchAt(s, i)
    ELSE MatchFrom(s, i + 1)

Match(s) == MatchFrom(s, 1)

parseTimeToMs_Minutes(s) ==
    LET match == Match(s)
    IN  IF ~match.has THEN 0
        ELSE LET value == parseInt(match.val.value)
                 unit == match.val.unit
             IN  CASE unit = "s" -> value * 1000
                   [] unit = "m" -> value * 60
                   [] unit = "h" -> value * 60 * 60 * 1000
                   [] OTHER -> 0

parseTimeToMs(s) ==
    LET match == Match(s)
    IN  IF ~match.has THEN 0
        ELSE LET value == parseInt(match.val.value)
                 unit == match.val.unit
             IN  CASE unit = "s" -> value * 1000
                   [] unit = "m" -> value * 60 * 1000
                   [] unit = "h" -> value * 60 * 60 * 1000
                   [] OTHER -> 0

(***************************************************************************)
(* shouldWaitForRateLimit                                                  *)
(***************************************************************************)
\* A limit of 0 taken as a quota that is used up.
RatioBelow_ZeroLimitBelow(remaining, limit, thr) ==
    IF limit > 0 THEN remaining * thr[2] < thr[1] * limit
    ELSE IF limit < 0 THEN remaining * thr[2] > thr[1] * limit
    ELSE remaining <= 0

\* <= in place of <.
RatioBelow_OrEqual(remaining, limit, thr) ==
    IF limit > 0 THEN remaining * thr[2] <= thr[1] * limit
    ELSE IF limit < 0 THEN remaining * thr[2] >= thr[1] * limit
    ELSE remaining < 0

\* remaining / limit < threshold as JavaScript computes it, the threshold
\* being num/den with den > 0.  Division by zero gives NaN (0/0), which is
\* below nothing, or an infinity of the sign of remaining.
RatioBelow(remaining, limit, thr) ==
    IF limit > 0 THEN remaining * thr[2] < thr[1] * limit
    ELSE IF limit < 0 THEN remaining * thr[2] > thr[1] * limit
    ELSE remaining < 0

\* A string in a condition: undefined and "" are falsy.
Truthy(opt) == opt.has /\ opt.val # <<>>

shouldWaitForRateLimit(rli, thr) ==
    LET afterRequests ==
            IF rli.remainingRequests.has /\ rli.limitRequests.has
            THEN IF /\ RatioBelow(rli.remainingRequests.val,
                                  rli.limitRequests.val, thr)
                    /\ Truthy(rli.resetRequests)
                 THEN Max(0, parseTimeToMs(rli.resetRequests.val))
                 ELSE 0
            ELSE 0
    IN  IF rli.remainingTokens.has /\ rli.limitTokens.has
        THEN IF /\ RatioBelow(rli.remainingTokens.val, rli.limitTokens.val, thr)
                /\ Truthy(rli.resetTokens)
             THEN Max(afterRequests, parseTimeToMs(rli.resetTokens.val))
             ELSE afterRequests
        ELSE afterRequests

\* The default value of the threshold parameter, 0.1.
DefaultThreshold == <<1, 10>>

\* private rateLimitInfo: RateLimitInfo = {}
EmptyRateLimitInfo ==
    [limitRequests |-> None, limitTokens |-> None,
     remainingRequests |-> None, remainingTokens |-> None,
     resetRequests |-> None, resetTokens |-> None]

\* The RateLimitInfo values and thresholds of the model.
Remainings == {None, Some(-1), Some(0), Some(1), Some(5)}
Limits == {None, Some(0), Some(10), Some(100)}
Resets == {None, Some(<<>>), Some(<<"5", "s">>), Some(<<"2", "m">>), Some(<<"x">>)}
Thresholds == {DefaultThreshold, <<1, 2>>}

RateLimitInfos ==
    [limitRequests : Limits, limitTokens : Limits,
     remainingRequests : Remainings, remainingTokens : Remainings,
     resetRequests : Resets, resetTokens : Resets]

(***************************************************************************)
(* The parser and the advisor as state machines: the argument is drawn     *)
(* when the state is set up, the call stores the return value.             *)
(***************************************************************************)
ParserIdle == timeStr = <<>> /\ parsed = None
AdvisorIdle == info = EmptyRateLimitInfo /\ threshold = DefaultThreshold /\ waitTime = None

ParseTimeToMs ==
    /\ parsed = None
    /\ parsed' = Some(parseTimeToMs(timeStr))
    /\ UNCHANGED <<timeStr, advisorVars, analyzerVars, log, appVars>>

ShouldWaitForRateLimit ==
    /\ waitTime = None
    /\ waitTime' = Some(shouldWaitForRateLimit(info, threshold))
    /\ UNCHANGED <<info, threshold, parserVars, analyzerVars, log, appVars>>

(***************************************************************************)
(* ModerationApp.analyzeResult                                             *)
(*                                                                         *)
(* An object is the sequence of its <<key, value>> entries in the order of *)
(* its keys, which is the order Object.entries lists them in.              *)
(***************************************************************************)
ModerationCategory ==
    <<"sexual", "sexual/minors", "harassment", "harassment/threatening",
      "hate", "hate/threatening", "illicit", "illicit/violent", "self-harm",
      "self-harm/intent", "self-harm/instructions", "violence",
      "violence/graphic">>

\* The categories of the model, in the order of the enumeration.
Categories == SubSeq(ModerationCategory, 1, NumCats)
CategorySet == {Categories[i] : i \in 1..NumCats}

\* score > 0.1, in thousandths.
ScoreThreshold == 100
\* .slice(0, 3)
TopCount == 3

\* The comparator ([_, a], [__, b]) => b - a.
Compare(x, y) == y[2] - x[2]

\* A sort that puts an entry before the entries of its score.
RECURSIVE Insert_Unstable(_, _)
Insert_Unstable(sorted, e) ==
    IF sorted = <<>> THEN <<e>>
    ELSE IF Compare(Head(sorted), e) < 0
         THEN <<Head(sorted)>> \o Insert_Unstable(Tail(sorted), e)
         ELSE <<e>> \o sorted

\* Array.prototype.sort is stable: an entry goes after every entry that the
\* comparator does not put behind it.
RECURSIVE Insert(_, _)
Insert(sorted, e) ==
    IF sorted = <<>> THEN <<e>>
    ELSE IF Compare(Head(sorted), e) <= 0
         THEN <<Head(sorted)>> \o Insert(Tail(sorted), e)
         ELSE <<e>> \o sorted

RECURSIVE Sort(_)
Sort(entries) ==
    IF entries = <<>> THEN <<>>
    ELSE Insert(Sort(SubSeq(entries, 1, Len(entries) - 1)), entries[Len(entries)])

Slice(entries, n) == SubSeq(entries, 1, IF Len(entries) < n THEN Len(entries) ELSE n)

\* No filter: every category is listed.
flaggedCategoriesOf_Unfiltered(r) ==
    [i \in 1..Len(r.categories) |-> r.categories[i][1]]

flaggedCategoriesOf(r) ==
    LET kept == SelectSeq(r.categories, LAMBDA e : e[2])
    IN  [i \in 1..Len(kept) |-> kept[i][1]]

\* score >= 0.1 in place of score > 0.1.
highScoresOf_AtLeastThreshold(r) ==
    Slice(Sort(SelectSeq(r.category_scores, LAMBDA e : e[2] >= ScoreThreshold)),
          TopCount)

\* Only the scores of the categories whose boolean is true.
highScoresOf_FlaggedOnly(r) ==
    Slice(Sort(SelectSeq(r.category_scores,
                      LAMBDA e : /\ e[2] > ScoreThreshold
                                 /\ \E i \in 1..Len(r.categories) :
                                        r.categories[i] = <<e[1], TRUE>>)),
          TopCount)

highScoresOf(r) ==
    Slice(Sort(SelectSeq(r.category_scores, LAMBDA e : e[2] > ScoreThreshold)),
          TopCount)

\* The lines analyzeResult logs for r. The first line quotes the input text,
\* which the model does not carry; a score is logged as it is, not as a
\* percentage.
analyzeResultLines(r) ==
    <<  <<"Analysis for">>, <<"Flagged", r.flagged>>  >>
    \o (IF r.flagged
        THEN <<  <<"Flagged Categories", flaggedCategoriesOf(r)>>  >>
             \o (IF Len(highScoresOf(r)) > 0
                 THEN <<  <<"Top Confidence Scores">>  >>
                      \o [i \in 1..Len(highScoresOf(r)) |->
                            <<"Score", highScoresOf(r)[i][1], highScoresOf(r)[i][2]>>]
                 ELSE <<>>)
        ELSE <<>>)
    \o <<  <<"">>  >>

(***************************************************************************)
(* The ModerationResult values of the model.                               *)
(***************************************************************************)
Reverse(seq) == [i \in 1..Len(seq) |-> seq[Len(seq) + 1 - i]]

\* The object with the keys of `order`, in that order, and the values of f.
Object(order, f) == [i \in 1..Len(order) |-> <<order[i], f[order[i]]>>]

\* The orders in which an object of the model lists the categories.
KeyOrders == {Categories, Reverse(Categories)}

\* Scores in thousandths: 0.1 itself, and two scores above it.
Scores == {100, 300, 900}

AppliedInputTypes == Object(Categories, [k \in CategorySet |-> <<"text">>])

ModerationResults(orders) ==
    {[flagged |-> fl,
      categories |-> Object(o1, c),
      category_scores |-> Object(o2, sc),
      category_applied_input_types |-> AppliedInputTypes] :
        fl \in BOOLEAN, o1 \in orders, o2 \in orders,
        c \in [CategorySet -> BOOLEAN], sc \in [CategorySet -> Scores]}

NoResult ==
    [flagged |-> FALSE, categories |-> <<>>, category_scores |-> <<>>,
     category_applied_input_types |-> <<>>]

\* The results that have the category_scores of r and another flagged field
\* or other categories booleans.
SetAll(entries, b) == [i \in 1..Len(entries) |-> <<entries[i][1], b>>]
Negate(entries) == [i \in 1..Len(entries) |-> <<entries[i][1], ~entries[i][2]>>]

VariantsOf(r) ==
    {[r EXCEPT !.flagged = fl, !.categories = c] :
        fl \in BOOLEAN,
        c \in {r.categories, SetAll(r.categories, TRUE),
               SetAll(r.categories, FALSE), Negate(r.categories)}} \ {r}

\* How many times the analyzer is called on one result.
MaxCalls == 2

AnalyzerIdle ==
    /\ result = NoResult /\ calls = 0 /\ firstLog = <<>> /\ variant = NoResult
AppIdle ==
    /\ pc = "idle" /\ env = FALSE /\ net = None
    /\ rateLimitInfo = EmptyRateLimitInfo /\ exitCode = None /\ netCalls = 0

\* What the lines of a call report.
FlaggedCategoriesIn(lines) ==
    LET fl == SelectSeq(lines, LAMBDA l : l[1] = "Flagged Categories")
    IN  IF fl = <<>> THEN <<>> ELSE fl[1][2]

TopScoresIn(lines) ==
    LET sc == SelectSeq(lines, LAMBDA l : l[1] = "Score")
    IN  [i \in 1..Len(sc) |-> <<sc[i][2], sc[i][3]>>]

LinesAfter(lines, n) == SubSeq(lines, n + 1, Len(lines))

\* A slip that sorts the entries of the result itself.
AnalyzeResult_SortsInput ==
    /\ calls < MaxCalls
    /\ variant = result
    /\ log' = log \o analyzeResultLines(result)
    /\ firstLog' = IF calls = 0 THEN analyzeResultLines(result) ELSE firstLog
    /\ calls' = calls + 1
    /\ result' = [result EXCEPT !.category_scores = Sort(result.category_scores)]
    /\ variant' = result'
    /\ UNCHANGED <<parserVars, advisorVars, appVars>>

\* analyzeResult(result, ...): it logs, and leaves the result as it is
\* (filter, map, sort and slice work on arrays of their own).
AnalyzeResult ==
    /\ calls < MaxCalls
    /\ variant = result
    /\ log' = log \o analyzeResultLines(result)
    /\ firstLog' = IF calls = 0 THEN analyzeResultLines(result) ELSE firstLog
    /\ calls' = calls + 1
    /\ UNCHANGED <<result, variant, parserVars, advisorVars, appVars>>

\* analyzeResult on a variant of the result, after the result itself.
AnalyzeVariant ==
    /\ calls = 1
    /\ variant = result
    /\ \E v \in VariantsOf(result) :
          /\ variant' = v
          /\ log' = log \o analyzeResultLines(v)
    /\ calls' = calls + 1
    /\ UNCHANGED <<result, firstLog, parserVars, advisorVars, appVars>>

(***************************************************************************)
(* The specifications of the three functions.                              *)
(***************************************************************************)
InitParse ==
    /\ timeStr \in StringsUpTo(MaxLen) /\ parsed = None
    /\ AdvisorIdle /\ AnalyzerIdle /\ log = <<>> /\ AppIdle
NextParse == ParseTimeToMs
SpecParse == InitParse /\ [][NextParse]_vars

InitAdvise ==
    /\ info \in RateLimitInfos /\ threshold \in Thresholds /\ waitTime = None
    /\ ParserIdle /\ AnalyzerIdle /\ log = <<>> /\ AppIdle
NextAdvise == ShouldWaitForRateLimit
SpecAdvise == InitAdvise /\ [][NextAdvise]_vars

InitAnalyze ==
    /\ result \in ModerationResults(KeyOrders) /\ variant = result
    /\ calls = 0 /\ firstLog = <<>> /\ log = <<>>
    /\ ParserIdle /\ AdvisorIdle /\ AppIdle
NextAnalyze == AnalyzeResult
SpecAnalyze == InitAnalyze /\ [][NextAnalyze]_vars

InitVariant ==
    /\ result \in ModerationResults({Categories}) /\ variant = result
    /\ calls = 0 /\ firstLog = <<>> /\ log = <<>>
    /\ ParserIdle /\ AdvisorIdle /\ AppIdle
NextVariant == AnalyzeResult \/ AnalyzeVariant
SpecVariant == InitVariant /\ [][NextVariant]_vars

(***************************************************************************)
(* The run of the application: main, the constructor, runModeration,       *)
(* moderateText and logRateLimitInfo.  env and net are what the            *)
(* environment holds and answers; they are fixed when the run starts.      *)
(* netCalls counts the calls of client.moderations.create.                 *)
(***************************************************************************)
\* The results[0] of the responses of the model: every boolean is the
\* flagged field, every category has the same score.
AppResults ==
    {[flagged |-> fl,
      categories |-> Object(Categories, [k \in CategorySet |-> fl]),
      category_scores |-> Object(Categories, [k \in CategorySet |-> sc]),
      category_applied_input_types |-> AppliedInputTypes] :
        fl \in BOOLEAN, sc \in Scores}

\* The rate-limit headers of the responses of the model: none, and headers
\* that leave less than a tenth of the requests.
ResponseHeaders ==
    {EmptyRateLimitInfo,
     [EmptyRateLimitInfo EXCEPT !.limitRequests = Some(100),
                                !.remainingRequests = Some(5),
                                !.resetRequests = Some(<<"5", "s">>)]}

\* file: content.txt can be read. api: the moderation call resolves ("ok")
\* or rejects ("fail").
Environments ==
    {Some([file |-> f, api |-> a, results |-> rs, headers |-> h]) :
        f \in BOOLEAN, a \in {"ok", "fail"},
        rs \in {<<>>} \cup {<<r>> : r \in AppResults},
        h \in ResponseHeaders}

Line(tag) == << <<tag>> >>

\* main's catch: console.error and process.exit(1).
Exit1(lines) ==
    /\ log' = log \o lines \o Line("Application failed to start")
    /\ exitCode' = Some(1)
    /\ pc' = "exited"

\* A constructor that does not check the key.
Construct_NoKeyCheck ==
    /\ pc = "main"
    /\ pc' = "run" /\ UNCHANGED <<log, exitCode>>
    /\ UNCHANGED <<env, net, rateLimitInfo, netCalls,
                   parserVars, advisorVars, analyzerVars>>

\* main: new ModerationApp().
Construct ==
    /\ pc = "main"
    /\ IF env
       THEN pc' = "run" /\ UNCHANGED <<log, exitCode>>
       ELSE Exit1(<<>>)
    /\ UNCHANGED <<env, net, rateLimitInfo, netCalls,
                   parserVars, advisorVars, analyzerVars>>

\* runModeration up to the call of moderateText: readContentFromFile.
ReadContent ==
    /\ pc = "run"
    /\ IF net.val.file
       THEN /\ log' = log \o Line("Starting OpenAI Moderation API")
                          \o Line("Content loaded from content.txt")
            /\ pc' = "moderate"
            /\ UNCHANGED exitCode
       ELSE Exit1(Line("Starting OpenAI Moderation API")
                  \o Line("Failed to process content"))
    /\ UNCHANGED <<env, net, rateLimitInfo, netCalls,
                   parserVars, advisorVars, analyzerVars>>

\* moderateText up to the call of client.moderations.create, the delay
\* included: nothing else runs while it sleeps.
ModerateText ==
    /\ pc = "moderate"
    /\ LET wait == shouldWaitForRateLimit(rateLimitInfo, DefaultThreshold)
       IN  log' = log \o Line("Moderating text")
                      \o (IF wait > 0
                          THEN << <<"Waiting due to rate limit proximity", wait>> >>
                          ELSE <<>>)
    /\ netCalls' = netCalls + 1
    /\ pc' = "create"
    /\ UNCHANGED <<env, net, rateLimitInfo, exitCode,
                   parserVars, advisorVars, analyzerVars>>

\* A moderateText that stores the rate-limit headers of the response.
CreateResolves_StoresHeaders ==
    /\ pc = "create"
    /\ net.val.api = "ok"
    /\ log' = log \o Line("Moderation completed")
    /\ rateLimitInfo' = net.val.headers
    /\ pc' = "moderated"
    /\ UNCHANGED <<env, net, exitCode, netCalls,
                   parserVars, advisorVars, analyzerVars>>

\* The call resolves: moderateText logs and returns the response. The
\* headers of the response are not read.
CreateResolves ==
    /\ pc = "create"
    /\ net.val.api = "ok"
    /\ log' = log \o Line("Moderation completed")
    /\ pc' = "moderated"
    /\ UNCHANGED <<env, net, rateLimitInfo, exitCode, netCalls,
                   parserVars, advisorVars, analyzerVars>>

\* The call rejects: the catch of moderateText, of runModeration and of main.
CreateRejects ==
    /\ pc = "create"
    /\ net.val.api = "fail"
    /\ Exit1(Line("Error during moderation") \o Line("Failed to process content"))
    /\ UNCHANGED <<env, net, rateLimitInfo, netCalls,
                   parserVars, advisorVars, analyzerVars>>

\* The lines of logRateLimitInfo.
logRateLimitInfoLines(rli) ==
    IF rli # EmptyRateLimitInfo
    THEN << <<"Rate Limit Info", rli>> >>
         \o (IF shouldWaitForRateLimit(rli, DefaultThreshold) > 0
             THEN << <<"Approaching rate limit",
                       shouldWaitForRateLimit(rli, DefaultThreshold)>> >>
             ELSE <<>>)
    ELSE <<>>

\* runModeration after moderateText has returned, and the end of main.
FinishRun ==
    /\ pc = "moderated"
    /\ log' = log \o (IF Len(net.val.results) > 0
                      THEN analyzeResultLines(net.val.results[1])
                      ELSE <<>>)
                  \o logRateLimitInfoLines(rateLimitInfo)
                  \o Line("Moderation completed!")
    /\ exitCode' = Some(0)
    /\ pc' = "exited"
    /\ UNCHANGED <<env, net, rateLimitInfo, netCalls,
                   parserVars, advisorVars, analyzerVars>>

Init ==
    /\ pc = "main" /\ env \in BOOLEAN /\ net \in Environments
    /\ rateLimitInfo = EmptyRateLimitInfo /\ exitCode = None /\ netCalls = 0
    /\ log = <<>>
    /\ ParserIdle /\ AdvisorIdle /\ AnalyzerIdle

Next ==
    \/ Construct
    \/ ReadContent
    \/ ModerateText
    \/ CreateResolves
    \/ CreateRejects
    \/ FinishRun

Spec == Init /\ [][Next]_vars

(***************************************************************************)
(* The claims.                                                             *)
(***************************************************************************)
\* The expected form: the whole string is one or more digits and one unit.
WellFormed(s) ==
    /\ Len(s) >= 2
    /\ \A i \in 1..(Len(s) - 1) : s[i] \in Digits
    /\ s[Len(s)] \in Units

RECURSIVE Pow10(_)
Pow10(n) == IF n = 0 THEN 1 ELSE 10 * Pow10(n - 1)

RECURSIVE SumTo(_, _)
SumTo(f, n) == IF n = 0 THEN 0 ELSE f[n] + SumTo(f, n - 1)

\* The number the decimal numeral ds writes.
Decimal(ds) ==
    SumTo([i \in 1..Len(ds) |-> DigitVal(ds[i]) * Pow10(Len(ds) - i)], Len(ds))

UnitMs(u) == CASE u = "s" -> 1000 [] u = "m" -> 60000 [] u = "h" -> 3600000

\* C1: the duration parser returns 0 for every string that is not, as a
\* whole, one or more digits followed by one unit letter of s, m, h.
C1_MalformedGivesZero ==
    (parsed.has /\ ~WellFormed(timeStr)) => parsed.val = 0

\* C2: for a string made of a decimal integer n and one unit letter, the
\* duration parser returns n*1000 (s), n*60000 (m) or n*3600000 (h).
C2_WellFormedValue ==
    (parsed.has /\ WellFormed(timeStr)) =>
        parsed.val = Decimal(SubSeq(timeStr, 1, Len(timeStr) - 1))
                        * UnitMs(timeStr[Len(timeStr)])

C2_Witness ==
    /\ parsed.has
    /\ timeStr = <<"2", "5", "m">>
    /\ parsed.val = 1500000

\* remaining/limit strictly below num/den (den > 0); with limit 0 the
\* quotient is below the threshold only as minus infinity.
StrictlyBelow(remaining, limit, thr) ==
    \/ limit > 0 /\ remaining * thr[2] < thr[1] * limit
    \/ limit < 0 /\ remaining * thr[2] > thr[1] * limit
    \/ limit = 0 /\ remaining < 0

\* The candidate wait time of one dimension.
Candidate(remaining, limit, reset, thr) ==
    IF /\ remaining.has /\ limit.has /\ reset.has
       /\ StrictlyBelow(remaining.val, limit.val, thr)
    THEN parseTimeToMs(reset.val)
    ELSE 0

RequestsCandidate ==
    Candidate(info.remainingRequests, info.limitRequests, info.resetRequests,
              threshold)
TokensCandidate ==
    Candidate(info.remainingTokens, info.limitTokens, info.resetTokens,
              threshold)

\* C3: the advisor returns the maximum of the candidate wait times of the
\* two dimensions, a dimension's candidate being its parsed reset duration
\* when remaining, limit and reset are present and remaining/limit is
\* strictly below the threshold, and 0 otherwise.
C3_MaxOfCandidates ==
    waitTime.has =>
        waitTime.val = IF RequestsCandidate >= TokensCandidate
                       THEN RequestsCandidate ELSE TokensCandidate

C3_Witness ==
    /\ waitTime.has
    /\ ~info.remainingRequests.has
    /\ info.remainingTokens = Some(1) /\ info.limitTokens = Some(100)
    /\ info.resetTokens = Some(<<"2", "m">>)
    /\ waitTime.val = 120000

\* The keys of an object, the value under a key, the place of a key.
Keys(entries) == [i \in 1..Len(entries) |-> entries[i][1]]
ValueOf(entries, k) ==
    entries[CHOOSE i \in 1..Len(entries) : entries[i][1] = k][2]
PlaceOf(keys, k) == CHOOSE i \in 1..Len(keys) : keys[i] = k

RECURSIVE TrueKeys(_, _)
\* The keys of `keys`, in that order, whose boolean in entries is true.
TrueKeys(keys, entries) ==
    IF keys = <<>> THEN <<>>
    ELSE (IF ValueOf(entries, Head(keys)) THEN <<Head(keys)>> ELSE <<>>)
         \o TrueKeys(Tail(keys), entries)

HasLine(lines, tag) == \E i \in 1..Len(lines) : lines[i][1] = tag

\* C4 as stated: whatever the flagged field, the analyzer reports exactly
\* the categories whose boolean is true, in the order of the enumeration.
C4_FlaggedCategoriesCanonical ==
    calls >= 1 =>
        FlaggedCategoriesIn(firstLog) = TrueKeys(Categories, result.categories)

\* C4 amended: for a result with flagged = true the analyzer reports exactly
\* the categories whose boolean is true, in the order in which the
\* categories object lists its keys (the order of the enumeration when the
\* object lists them so); for a result with flagged = false it reports no
\* flagged categories.
C4_FlaggedCategoriesInKeyOrder ==
    calls >= 1 =>
        IF result.flagged
        THEN /\ HasLine(firstLog, "Flagged Categories")
             /\ FlaggedCategoriesIn(firstLog)
                    = TrueKeys(Keys(result.categories), result.categories)
             /\ Keys(result.categories) = Categories =>
                    FlaggedCategoriesIn(firstLog)
                        = TrueKeys(Categories, result.categories)
        ELSE ~HasLine(firstLog, "Flagged Categories")

C4_Witness ==
    /\ calls >= 1
    /\ result.flagged
    /\ Keys(result.categories) = Reverse(Categories)
    /\ Len(FlaggedCategoriesIn(firstLog)) = 2

\* C5: topScores has at most 3 entries, is sorted by non-increasing score,
\* and every entry has a score strictly greater than 0.1.
C5_TopScoresBounded ==
    calls >= 1 =>
        LET ts == TopScoresIn(firstLog)
        IN  /\ Len(ts) <= 3
            /\ \A i \in 1..Len(ts) : ts[i][2] > 100
            /\ \A i, j \in 1..Len(ts) : i < j => ts[i][2] >= ts[j][2]

C5_Witness ==
    /\ calls >= 1
    /\ Len(TopScoresIn(firstLog)) = 3
    /\ \A i \in 1..NumCats : result.category_scores[i][2] > 100
    /\ \E i \in 1..NumCats : result.category_scores[i][2] = 300
    /\ \E i \in 1..NumCats : result.category_scores[i][2] = 900

\* The first 3 of the categories with a score above 0.1, by descending
\* score, equal scores in the order of `keys`: the entry at place n is the
\* one that n - 1 of them come before.
Above(scores) == {k \in CategorySet : ValueOf(scores, k) > 100}
Before(scores, keys, j, k) ==
    \/ ValueOf(scores, j) > ValueOf(scores, k)
    \/ ValueOf(scores, j) = ValueOf(scores, k) /\ PlaceOf(keys, j) < PlaceOf(keys, k)
Ranked(scores, keys) ==
    LET n == IF Cardinality(Above(scores)) < 3 THEN Cardinality(Above(scores)) ELSE 3
        at(p) == CHOOSE k \in Above(scores) :
                    Cardinality({j \in Above(scores) : Before(scores, keys, j, k)}) = p - 1
    IN  [p \in 1..n |-> <<at(p), ValueOf(scores, at(p))>>]

\* C6 as stated: for a flagged result topScores is the first 3 of the
\* categories with a score above 0.1 by descending score, equal scores in
\* the order of the enumeration.
C6_TopScoresCanonicalTies ==
    (calls >= 1 /\ result.flagged) =>
        TopScoresIn(firstLog) = Ranked(result.category_scores, Categories)

\* C6 amended: for a flagged result topScores is the first 3 of the
\* categories with a score above 0.1 by descending score, equal scores in
\* the order in which category_scores lists its keys (the order of the
\* enumeration when it lists them so).
C6_TopScoresKeyOrderTies ==
    (calls >= 1 /\ result.flagged) =>
        /\ TopScoresIn(firstLog)
              = Ranked(result.category_scores, Keys(result.category_scores))
        /\ Keys(result.category_scores) = Categories =>
              TopScoresIn(firstLog) = Ranked(result.category_scores, Categories)

C6_Witness ==
    /\ calls >= 1
    /\ result.flagged
    /\ Keys(result.category_scores) = Reverse(Categories)
    /\ Cardinality(Above(result.category_scores)) > 3
    /\ Len(TopScoresIn(firstLog)) = 3
    /\ TopScoresIn(firstLog)[2][2] = TopScoresIn(firstLog)[3][2]
    /\ TopScoresIn(firstLog)[1][2] > TopScoresIn(firstLog)[2][2]

\* C7: a call of the analyzer leaves the result as it was (flagged,
\* categories, category_scores, category_applied_input_types, the order of
\* their entries included), and a later call on the same result reports the
\* flagged categories and top scores of the first call.
C7_NoMutationIdempotent ==
    [][calls' = calls + 1 =>
          /\ result' = result
          /\ (calls >= 1 /\ variant' = result') =>
                /\ FlaggedCategoriesIn(LinesAfter(log', Len(log)))
                      = FlaggedCategoriesIn(firstLog)
                /\ TopScoresIn(LinesAfter(log', Len(log)))
                      = TopScoresIn(firstLog)]_vars

C7_Witness ==
    /\ calls = 2
    /\ variant = result
    /\ result.flagged
    /\ Len(TopScoresIn(firstLog)) = 3
    /\ Len(FlaggedCategoriesIn(firstLog)) >= 1
    /\ Sort(result.category_scores) # result.category_scores

\* The lines of the call on the variant.
VariantLines == LinesAfter(log, Len(firstLog))

\* C10 as stated: two results with the same category_scores yield the same
\* topScores, whatever their flagged fields and categories booleans; a
\* result with flagged = false and a score above 0.1 has a non-empty
\* topScores.
C10_TopScoresOnlyFromScores ==
    variant # result =>
        /\ TopScoresIn(VariantLines) = TopScoresIn(firstLog)
        /\ Above(variant.category_scores) # {} => TopScoresIn(VariantLines) # <<>>

\* C10 amended: two results with the same category_scores that are both
\* flagged yield the same topScores, whatever their categories booleans; a
\* result with flagged = false yields no topScores, whatever its scores.
C10_TopScoresFromScoresAndFlagged ==
    variant # result =>
        /\ (result.flagged /\ variant.flagged) =>
              TopScoresIn(VariantLines) = TopScoresIn(firstLog)
        /\ ~variant.flagged => TopScoresIn(VariantLines) = <<>>
        /\ ~result.flagged => TopScoresIn(firstLog) = <<>>

C10_Witness ==
    /\ variant # result
    /\ result.flagged /\ variant.flagged
    /\ variant.categories # result.categories
    /\ Len(TopScoresIn(VariantLines)) = 3

\* A collaborator step fails in this run: the key is missing, the content
\* file cannot be read, or the moderation call rejects.
KeyMissing == ~env
ReadFails == ~net.val.file
CallFails == net.val.api = "fail"

ZeroLimit(remaining, limit) ==
    remaining.has /\ limit.has /\ limit.val = 0 /\ remaining.val >= 0

WithoutRequests ==
    [info EXCEPT !.remainingRequests = None, !.limitRequests = None,
                 !.resetRequests = None]
WithoutTokens ==
    [info EXCEPT !.remainingTokens = None, !.limitTokens = None,
                 !.resetTokens = None]

\* C11: the advisor always returns a wait time, and a dimension whose limit
\* is 0 and whose remaining count is not negative contributes 0 to it, also
\* when remaining is 0 and a reset duration is present: the advisor returns
\* what it returns without that dimension, and 0 when both dimensions are so.
C11_ZeroLimitNeverWaits ==
    /\ ~waitTime.has => ENABLED ShouldWaitForRateLimit
    /\ waitTime.has =>
          /\ waitTime.val >= 0
          /\ ZeroLimit(info.remainingRequests, info.limitRequests) =>
                waitTime.val = shouldWaitForRateLimit(WithoutRequests, threshold)
          /\ ZeroLimit(info.remainingTokens, info.limitTokens) =>
                waitTime.val = shouldWaitForRateLimit(WithoutTokens, threshold)
          /\ (/\ ZeroLimit(info.remainingRequests, info.limitRequests)
              /\ ZeroLimit(info.remainingTokens, info.limitTokens)) =>
                waitTime.val = 0

C11_Witness ==
    /\ waitTime.has
    /\ info.limitRequests = Some(0) /\ info.remainingRequests = Some(0)
    /\ info.resetRequests = Some(<<"5", "s">>)
    /\ info.limitTokens = Some(0) /\ info.remainingTokens = Some(5)
    /\ info.resetTokens = Some(<<"2", "m">>)
    /\ waitTime.val = 0

=============================================================================
